---- MODULE Spec2Model ----
(***************************************************************************)
(* A model of the SQL DB demo page (src/index.ts): the DbClient with its   *)
(* round-robin counter over the worker sessions, the status polling loop   *)
(* guarded by the module-level flag `updating`, and the query submission   *)
(* flow.  The browser's event loop is modelled by one action per macrotask *)
(* (a click, a timer tick, a network response), each including the promise *)
(* reactions (microtasks) that run before the next macrotask.              *)
(***************************************************************************)
EXTENDS Integers, Sequences, FiniteSets, TLC

\* ---------------------------------------------------------------- bounds
\* largest number of worker sessions fluence.connect returns
MaxSize == 3
\* longest text typed into the query field, in characters
MaxLen == 1
\* number of clicks on the submit button that are explored
MaxSubmits == 3
\* largest number of query results awaiting their node at one time
MaxInFlight == 2
\* number of status() calls that are explored
MaxPolls == 2
\* number of setInterval calls that are explored
MaxTimers == 2

\* ------------------------------------------------------------- constants
\* the labels of the toggle button (src/index.ts:180-181)
stop == "Stop update status"
start == "Start update status"

\* The label the toggle button carries when the page is loaded.  It is set
\* by the page's HTML; the button is "labelled by its current action", and
\* polling is armed when the page becomes ready.
InitialBtnValue == stop

\* JavaScript's NaN, the value of x % 0
NaN == -1

\* ---------------------------------------------------------------- strings
\* A string is a sequence of characters; "\n" is the line separator.
Chars == {"a", "\n"}

Strings == UNION {[1..n -> Chars] : n \in 0..MaxLen}

RECURSIVE split(_)
\* String.prototype.split('\n'): the pieces between the separators, empty
\* pieces included; the empty string splits into one empty piece.
split(str) ==
    IF \A i \in 1..Len(str) : str[i] # "\n"
    THEN <<str>>
    ELSE LET i == CHOOSE j \in 1..Len(str) :
                      /\ str[j] = "\n"
                      /\ \A m \in 1..(j - 1) : str[m] # "\n"
         IN <<SubSeq(str, 1, i - 1)>> \o split(SubSeq(str, i + 1, Len(str)))

\* --------------------------------------------------------------- numbers
\* x + 1 and x % y on JavaScript numbers: NaN is absorbing, x % 0 is NaN
Plus1(x) == IF x = NaN THEN NaN ELSE x + 1

Mod(x, y) == IF x = NaN \/ y = 0 THEN NaN ELSE x % y

\* ------------------------------------------------------------------ state
VARIABLES
    phase,        \* "form", "connecting", "ready" or "failed": where preparePage is
    size,         \* DbClient.size
    counter,      \* DbClient.counter
    inputField,   \* inputField.value
    resultField,  \* resultField.value: the blocks appended so far
    pending,      \* the result promises of invoke() that have not settled
    invoked,      \* the invoke() calls of the last submitQuery call, in order
    returned,     \* the array the last submitQuery call resolved with
    lastQueries,  \* the argument of the last submitQuery call
    routed,       \* per submitQuery call, the index nextNodeIndex() returned
    resolutions,  \* the results resolved since the last submit, in that order
    unhandled,    \* where promises rejected with no rejection handler arose
    updating,     \* the module-level flag `updating`
    timer,        \* the variable `timer` of preparePage: an interval id
    armed,        \* the ids of the repeating timers that are armed
    timersMade,   \* the number of setInterval calls so far
    btnValue,     \* updateStatusBtn.value
    toggles,      \* the number of toggle clicks handled so far
    poll,         \* per node, the state of its getWorkerStatus request
    statusField,  \* statusField.innerHTML: the blocks it shows
    statusCalls,  \* the number of client.status() calls so far
    unsettled,    \* the number of client.status() calls that have not settled
    lastStatus,   \* how the last settled client.status() call settled
    lastEvent     \* the handler that ran last

dispatchVars == <<size, counter, inputField, resultField, pending, invoked,
                  returned, lastQueries, routed, resolutions>>

pollVars == <<updating, timer, armed, timersMade, btnValue, toggles, poll, statusField,
              statusCalls, unsettled, lastStatus>>

vars == <<phase, dispatchVars, unhandled, pollVars, lastEvent>>

\* --------------------------------------------------------------- DbClient
\* A nextNodeIndex that returns the counter's value before the advance.
nextNodeIndexPostIncrement(c, s) ==
    [counter |-> Mod(Plus1(c), s), ret |-> c]

\* A nextNodeIndex that computes the next index and does not store it.
nextNodeIndexForgets(c, s) ==
    [counter |-> c, ret |-> Mod(Plus1(c), s)]

\* DbClient.nextNodeIndex: advances the counter and returns its new value
nextNodeIndex(c, s) ==
    LET n == Mod(Plus1(c), s)
    IN [counter |-> n, ret |-> n]

RECURSIVE nodesPerQuery(_, _, _)
\* the indices n successive nextNodeIndex calls return, starting from c
nodesPerQuery(c, s, n) ==
    IF n = 0 THEN <<>>
    ELSE LET nx == nextNodeIndex(c, s)
         IN <<nx.ret>> \o nodesPerQuery(nx.counter, s, n - 1)

\* A submitQuery that looks the session up inside the map callback, once per
\* query.
submitQueryAdvancesPerQuery(c, s, queries, call) ==
    LET nodes == nodesPerQuery(c, s, Len(queries))
        found == \A k \in 1..Len(nodes) : nodes[k] \in 0..(s - 1)
    IN [counter |-> IF nodes = <<>> THEN c ELSE nodes[Len(nodes)],
        ret     |-> IF nodes = <<>> THEN c ELSE nodes[1],
        threw   |-> ~found,
        invokes |-> IF found
                    THEN [k \in 1..Len(queries) |-> [node |-> nodes[k], q |-> queries[k]]]
                    ELSE <<>>,
        handles |-> IF found
                    THEN [k \in 1..Len(queries) |-> [call |-> call, k |-> k, q |-> queries[k]]]
                    ELSE <<>>]

\* the queries that are not empty, in order
nonEmpty(queries) == SelectSeq(queries, LAMBDA q : q # <<>>)

\* A submitQuery that skips the empty lines of its input.
submitQuerySkipsEmpty(c, s, queries, call) ==
    LET nx == nextNodeIndex(c, s)
        found == nx.ret \in 0..(s - 1)
        kept == nonEmpty(queries)
    IN [counter |-> nx.counter,
        ret     |-> nx.ret,
        threw   |-> ~found,
        invokes |-> IF found
                    THEN [k \in 1..Len(kept) |-> [node |-> nx.ret, q |-> kept[k]]]
                    ELSE <<>>,
        handles |-> IF found
                    THEN [k \in 1..Len(kept) |-> [call |-> call, k |-> k, q |-> kept[k]]]
                    ELSE <<>>]

\* DbClient.submitQuery: one session is looked up, then every query is invoked
\* on it.  workerSessions[i] is undefined when i is no index of the array,
\* and reading .session of it throws, which rejects the async function's
\* promise before any invoke() is made.
submitQuery(c, s, queries, call) ==
    LET nx == nextNodeIndex(c, s)
        found == nx.ret \in 0..(s - 1)
    IN [counter |-> nx.counter,
        ret     |-> nx.ret,
        threw   |-> ~found,
        invokes |-> IF found
                    THEN [k \in 1..Len(queries) |-> [node |-> nx.ret, q |-> queries[k]]]
                    ELSE <<>>,
        handles |-> IF found
                    THEN [k \in 1..Len(queries) |-> [call |-> call, k |-> k, q |-> queries[k]]]
                    ELSE <<>>]

\* ------------------------------------------------------------------- Init
Init ==
    /\ phase = "form"
    /\ size = 0
    /\ counter = 0
    /\ inputField = <<>>
    /\ resultField = <<>>
    /\ pending = {}
    /\ invoked = <<>>
    /\ returned = <<>>
    /\ lastQueries = <<>>
    /\ routed = <<>>
    /\ resolutions = <<>>
    /\ unhandled = {}
    /\ updating = FALSE
    /\ timer = 0
    /\ armed = {}
    /\ timersMade = 0
    /\ btnValue = InitialBtnValue
    /\ toggles = 0
    /\ poll = <<>>
    /\ statusField = <<>>
    /\ statusCalls = 0
    /\ unsettled = 0
    /\ lastStatus = [kind |-> "none", entries |-> <<>>]
    /\ lastEvent = "load"

\* ---------------------------------------------------------------- connect
\* startBtn's click listener.  With a required field empty it only reports
\* validity; otherwise it calls preparePage, which hides the form and awaits
\* fluence.connect.
StartClick(valid) ==
    /\ phase = "form"
    /\ phase' = IF valid THEN "connecting" ELSE "form"
    /\ lastEvent' = IF valid THEN "start" ELSE "invalid"
    /\ UNCHANGED <<dispatchVars, unhandled, pollVars>>

\* setInterval: a fresh id, armed
setInterval(ids, made) == ids \cup {made + 1}

\* fluence.connect resolves with s worker sessions: preparePage constructs
\* the client, registers the listeners and arms the first timer.
ConnectResolves(s) ==
    /\ phase = "connecting"
    /\ phase' = "ready"
    /\ size' = s
    /\ counter' = 0
    /\ poll' = [n \in 1..s |-> "idle"]
    /\ armed' = setInterval(armed, timersMade)
    /\ timer' = timersMade + 1
    /\ timersMade' = timersMade + 1
    /\ lastEvent' = "connected"
    /\ UNCHANGED <<inputField, resultField, pending, invoked, returned,
                   lastQueries, routed, resolutions, unhandled, updating,
                   btnValue, toggles, statusField, statusCalls, unsettled,
                   lastStatus>>

\* fluence.connect rejects: preparePage's promise rejects, and the click
\* listener attached no handler to it.
ConnectRejects ==
    /\ phase = "connecting"
    /\ phase' = "failed"
    /\ unhandled' = unhandled \cup {"preparePage"}
    /\ lastEvent' = "connect_failed"
    /\ UNCHANGED <<dispatchVars, pollVars>>

\* ------------------------------------------------------- query submission
\* The user edits the query field (shown once preparePage has run).
TypeInput(str) ==
    /\ phase # "form"
    /\ inputField' = str
    /\ lastEvent' = "typed"
    /\ UNCHANGED <<phase, size, counter, resultField, pending, invoked, returned,
                   lastQueries, routed, resolutions, unhandled, pollVars>>

\* The block submitQueries appends for one resolved result:
\* sep + newLine + r.asString() + newLine + sep, named by the result it shows.
resultBlock(h) == [kind |-> "result", call |-> h.call, k |-> h.k]

\* Listeners that preparePage registers before it awaits fluence.connect.
listenersRegisteredEarly(p) == p # "form"

\* preparePage registers the click listeners of btn and updateStatusBtn, and
\* arms the timer, after the await of fluence.connect: they exist once
\* connect has resolved.
listenersRegistered(p) == p = "ready"

\* A click listener without the test of the input's length.
inputAlwaysSubmitted(v) == TRUE

\* the test of btn's click listener: inputField.value.length !== 0
inputIsNotEmpty(v) == Len(v) # 0

\* A click listener that does not reset the input field.
inputKept(v) == v

\* inputField.value = "", the statement after the call of submitQueries
inputCleared(v) == <<>>

\* A result handler that assigns the block (=) where the code appends (+=).
appendResultReplaces(field, h) == <<resultBlock(h)>>

\* A result handler that puts the block in front of the panel's content.
appendResultPrepends(field, h) == <<resultBlock(h)>> \o field

\* resultField.value += sep + newLine + strRes + newLine + sep
appendResult(field, h) == Append(field, resultBlock(h))

\* btn's click listener, with submitQueries and the reaction to the promise
\* of submitQuery.  The body of the async submitQuery runs inside the click;
\* its promise settles in a microtask, where the handlers of the result
\* promises are attached, and the results settle in later macrotasks.
\* The button is shown once preparePage has run; a click before the listener
\* is registered does nothing.
SubmitClick ==
    /\ phase # "form"
    /\ IF ~listenersRegistered(phase)
       THEN /\ lastEvent' = "click_ignored"
            /\ UNCHANGED <<phase, dispatchVars, unhandled, pollVars>>
       ELSE IF inputIsNotEmpty(inputField)
       THEN /\ Len(routed) < MaxSubmits
            /\ Cardinality(pending) + Len(split(inputField)) <= MaxInFlight
            /\ LET call == Len(routed) + 1
                   queries == split(inputField)
                   res == submitQuery(counter, size, queries, call)
               IN /\ resultField' = <<>>
                  /\ counter' = res.counter
                  /\ routed' = Append(routed, res.ret)
                  /\ invoked' = res.invokes
                  /\ returned' = res.handles
                  /\ lastQueries' = queries
                  /\ pending' = pending \cup {[call |-> call, k |-> k] :
                                                 k \in 1..Len(res.handles)}
                  /\ unhandled' = IF res.threw
                                  THEN unhandled \cup {"submitQueries"}
                                  ELSE unhandled
            /\ resolutions' = <<>>
            /\ inputField' = inputCleared(inputField)
            /\ lastEvent' = "submit"
            /\ UNCHANGED <<phase, size, pollVars>>
       ELSE /\ lastEvent' = "submit_empty"
            /\ UNCHANGED <<phase, dispatchVars, unhandled, pollVars>>

\* A result promise resolves: the handler of submitQueries appends its block.
ResultResolves(h) ==
    /\ h \in pending
    /\ pending' = pending \ {h}
    /\ resultField' = appendResult(resultField, h)
    /\ resolutions' = Append(resolutions, h)
    /\ lastEvent' = "result"
    /\ UNCHANGED <<phase, size, counter, inputField, invoked, returned,
                   lastQueries, routed, unhandled, pollVars>>

\* A result promise rejects.  Neither res.then(...) in submitQuery nor
\* pr.then(...) in submitQueries passes a rejection handler, so both derived
\* promises reject unhandled and nothing is rendered.
ResultRejects(h) ==
    /\ h \in pending
    /\ pending' = pending \ {h}
    /\ unhandled' = unhandled \cup {"submitQuery", "submitQueries"}
    /\ lastEvent' = "result_failed"
    /\ UNCHANGED <<phase, size, counter, inputField, resultField, invoked,
                   returned, lastQueries, routed, resolutions, pollVars>>

\* ---------------------------------------------------------------- polling
\* What a node's getWorkerStatus request can settle with: a payload with
\* node_info and sync_info ("ok"), a payload without the fields the page
\* reads ("bad"), or a failure ("fail").
Outcomes == {"ok", "bad", "fail"}

\* genStatus: the block of one node (position n of the session array), with
\* the address, height and shortened hashes the node reported
genStatus(n) == [kind |-> "status", node |-> n]

\* genGlobalError: the panel "Unhandled error: ..." that the other page of
\* the repository renders when preparePage rejects
genGlobalError == [kind |-> "global_error", node |-> 0]

\* genErrorStatus with the empty address: the error block
genErrorStatus == [kind |-> "error", node |-> 0]

\* An updateStatus without the guard.
updateStatusNeverReturns(u) == FALSE

\* the first line of updateStatus: if (updating) return
updateStatusReturns(u) == u

\* A fulfilment handler that computes the blocks and does not assign them.
onStatusResolvedDiscards(field, r) == field

\* The fulfilment handler of client.status(): one block per response replaces
\* statusField.innerHTML; reading a field of a malformed response throws
\* before the assignment.
onStatusResolved(field, r) ==
    IF \E n \in 1..Len(r) : r[n] # "ok"
    THEN field
    ELSE [n \in 1..Len(r) |-> genStatus(n)]

\* The rejection handler, (e) => genErrorStatus("", e): the block is the
\* handler's value and statusField is not assigned.
onStatusRejected(field) == field

\* A chain whose fulfilment handler resets the flag after rendering, in place
\* of the finally handler.
updatingAfterRender(st) ==
    ~(st.kind = "resolved" /\ \A n \in 1..Len(st.entries) : st.entries[n] = "ok")

\* The finally handler, () => updating = false: the value of `updating` once
\* the chain of a status() call that settled as st has run.
updatingAfterSettle(st) == FALSE

idle(s) == [n \in 1..s |-> "idle"]

\* A tick of an armed timer runs updateStatus.  client.status() starts one
\* getWorkerStatus request per session; Promise.all of no requests is already
\* resolved, and its reactions run before the next macrotask.
Tick(t) ==
    /\ phase = "ready"
    /\ t \in armed
    /\ IF updateStatusReturns(updating)
       THEN /\ lastEvent' = "tick_skipped"
            /\ UNCHANGED <<updating, poll, statusField, statusCalls, unsettled,
                           lastStatus>>
       ELSE /\ statusCalls < MaxPolls
            /\ statusCalls' = statusCalls + 1
            /\ lastEvent' = "tick_polled"
            /\ IF size = 0
               THEN /\ statusField' = onStatusResolved(statusField, <<>>)
                    /\ lastStatus' = [kind |-> "resolved", entries |-> <<>>]
                    /\ updating' = updatingAfterSettle(lastStatus')
                    /\ UNCHANGED <<poll, unsettled>>
               ELSE /\ updating' = TRUE
                    /\ unsettled' = unsettled + 1
                    /\ poll' = [n \in 1..size |-> "pending"]
                    /\ UNCHANGED <<statusField, lastStatus>>
    /\ UNCHANGED <<phase, dispatchVars, unhandled, timer, armed, timersMade,
                   btnValue, toggles>>

\* The status request of node n settles with outcome o.  Promise.all rejects
\* with the first failure and resolves, in session order, once every request
\* has resolved; then the handlers of updateStatus run: then, catch, finally.
\* The requests a rejected Promise.all leaves behind have no observer.
NodeResponds(n, o) ==
    /\ phase = "ready"
    /\ n \in 1..size
    /\ poll[n] = "pending"
    /\ LET got == [poll EXCEPT ![n] = o]
           done == \A m \in 1..size : got[m] # "pending"
       IN IF o = "fail"
          THEN /\ lastStatus' = [kind |-> "rejected", entries |-> <<>>]
               /\ statusField' = onStatusRejected(statusField)
               /\ updating' = updatingAfterSettle(lastStatus')
               /\ unsettled' = unsettled - 1
               /\ poll' = idle(size)
               /\ lastEvent' = "poll_settled"
          ELSE IF done
          THEN /\ lastStatus' = [kind |-> "resolved", entries |-> got]
               /\ statusField' = onStatusResolved(statusField, got)
               /\ updating' = updatingAfterSettle(lastStatus')
               /\ unsettled' = unsettled - 1
               /\ poll' = idle(size)
               /\ lastEvent' = "poll_settled"
          ELSE /\ poll' = got
               /\ lastEvent' = "response"
               /\ UNCHANGED <<lastStatus, statusField, updating, unsettled>>
    /\ UNCHANGED <<phase, dispatchVars, unhandled, timer, armed, timersMade,
                   btnValue, toggles, statusCalls>>

\* A toggle that relabels the button and leaves the timer armed.
clearIntervalKeeps(ids, id) == ids

\* clearInterval: the timer with that id is no longer armed
clearInterval(ids, id) == ids \ {id}

\* A re-arm that calls setInterval and does not store the id it returns.
rearmedTimerDropped(old, new) == old

\* timer = setInterval(updateStatus, 500): the variable holds the new id
rearmedTimer(old, new) == new

\* updateStatusBtn's click listener; a click before the listener is
\* registered does nothing.
ToggleClick ==
    /\ phase # "form"
    /\ IF ~listenersRegistered(phase)
       THEN /\ lastEvent' = "toggle_ignored"
            /\ UNCHANGED <<armed, btnValue, timer, timersMade, toggles>>
       ELSE IF btnValue = stop
       THEN /\ armed' = clearInterval(armed, timer)
            /\ btnValue' = start
            /\ toggles' = toggles + 1
            /\ lastEvent' = "toggle_off"
            /\ UNCHANGED <<timer, timersMade>>
       ELSE /\ timersMade < MaxTimers
            /\ armed' = setInterval(armed, timersMade)
            /\ timer' = rearmedTimer(timer, timersMade + 1)
            /\ timersMade' = timersMade + 1
            /\ btnValue' = stop
            /\ toggles' = toggles + 1
            /\ lastEvent' = "toggle_on"
    /\ UNCHANGED <<phase, dispatchVars, unhandled, updating, poll, statusField,
                   statusCalls, unsettled, lastStatus>>

\* --------------------------------------------------------- specifications
Connect ==
    \/ \E valid \in BOOLEAN : StartClick(valid)
    \/ \E s \in 0..MaxSize : ConnectResolves(s)
    \/ ConnectRejects

\* the page with the query submission flow only
NextDispatch ==
    \/ Connect
    \/ \E str \in Strings : TypeInput(str)
    \/ SubmitClick
    \/ \E h \in pending : ResultResolves(h)
    \/ \E h \in pending : ResultRejects(h)

\* the page with the polling controller only
NextPoll ==
    \/ Connect
    \/ \E t \in armed : Tick(t)
    \/ \E n \in 1..size, o \in Outcomes : NodeResponds(n, o)
    \/ ToggleClick

\* The page up to and around the connect: the clicks, the typing and the
\* ticks, with a cluster that does not answer.  Before connect has resolved
\* no request is outstanding, so no answer can arrive there either, and the
\* states with phase # "ready" are those of the whole page.
NextStartup ==
    \/ Connect
    \/ \E str \in Strings : TypeInput(str)
    \/ SubmitClick
    \/ ToggleClick
    \/ \E t \in armed : Tick(t)

Next == NextDispatch \/ NextPoll

SpecDispatch == Init /\ [][NextDispatch]_vars

SpecPoll == Init /\ [][NextPoll]_vars

SpecStartup == Init /\ [][NextStartup]_vars

Spec == Init /\ [][Next]_vars

\* ------------------------------------------------------------- properties
\* the index the last submitQuery call got from nextNodeIndex
lastRouted == routed[Len(routed)]

\* C1 (as stated): with S >= 1 sessions the i-th submit call, counting from
\* i = 0, is routed to the session at index i mod S.
C1_RoutedAtIModS ==
    size >= 1 => \A i \in 1..Len(routed) : routed[i] = (i - 1) % size

\* C1 (amended): with S >= 1 sessions the i-th submit call, counting from
\* i = 0, forwards its batch to the session at index (i + 1) mod S: with
\* sessions [A, B, C], three calls route to B, then C, then A.
C1_RoutedAtSuccessorModS ==
    size >= 1 =>
        /\ \A i \in 1..Len(routed) : routed[i] = i % size
        /\ Len(routed) >= 1 => \A k \in 1..Len(invoked) : invoked[k].node = lastRouted

\* three submit calls on three sessions
C1_ThreeCallsThreeSessions ==
    size = 3 /\ Len(routed) = 3 /\ Len(invoked) >= 1

\* C2: every settled status() call yields one entry per node, whatever subset
\* of the per-node requests failed.
C2_StatusOneEntryPerNode ==
    lastStatus.kind # "none" =>
        lastStatus.kind = "resolved" /\ Len(lastStatus.entries) = size

\* C3: at most one status() call of the polling controller is unsettled, and
\* no step taken while one is unsettled (a tick in particular) calls status().
C3_GuardedPolling ==
    /\ [](unsettled <= 1)
    /\ [][unsettled > 0 => statusCalls' = statusCalls]_vars

\* a tick found the first poll unsettled and was skipped
C3_TickSkipped ==
    lastEvent = "tick_skipped" /\ unsettled = 1 /\ statusCalls = 1 /\ updating

\* C4: while the button stays toggled off, no status() call is started.
C4_NoPollWhileOff ==
    [][(btnValue = start /\ btnValue' = start) => statusCalls' = statusCalls]_vars

\* polling was re-armed once, polled and has been toggled off again
C4_ToggledOffAgain ==
    btnValue = start /\ lastEvent = "toggle_off" /\ timersMade >= 2 /\ statusCalls >= 1

\* every node of the last resolved status() call sent a well-formed payload
wellFormed(r) == \A n \in 1..Len(r) : r[n] = "ok"

\* C5: a poll that resolves, with well-formed payloads, after the timer was
\* cancelled still updates the status panel with its result and clears the
\* in-flight flag.
C5_InFlightPollStillLands ==
    (/\ lastEvent = "poll_settled"
     /\ armed = {}
     /\ lastStatus.kind = "resolved"
     /\ wellFormed(lastStatus.entries)) =>
        /\ statusField = [n \in 1..size |-> genStatus(n)]
        /\ ~updating
        /\ unsettled = 0

\* a poll of two or more nodes resolved while polling was toggled off
C5_ResolvedWhileStopped ==
    /\ lastEvent = "poll_settled"
    /\ armed = {}
    /\ btnValue = start
    /\ size >= 2
    /\ lastStatus.kind = "resolved"
    /\ wellFormed(lastStatus.entries)

\* C6: a failed query invoke is caught where it is used and rendered inline
\* as an error block; it is not left as an unhandled rejection.
C6_InvokeFailureRenderedInline ==
    lastEvent = "result_failed" =>
        /\ unhandled \cap {"submitQuery", "submitQueries"} = {}
        /\ \E i \in 1..Len(resultField) : resultField[i].kind = "error"

\* C7: when a poll's status() call fails, the status panel shows a single
\* error block.
C7_FailedPollShowsErrorBlock ==
    (lastEvent = "poll_settled" /\ lastStatus.kind = "rejected") =>
        statusField = <<genErrorStatus>>

\* C8: a submit call that selects a session advances the cursor exactly once,
\* whatever the number of queries, and forwards every query of the batch, in
\* order, to the one session the cursor then names.
C8_OneAdvancePerCall ==
    /\ []((size >= 1 /\ Len(routed) >= 1) =>
            /\ counter = lastRouted
            /\ Len(invoked) = Len(lastQueries)
            /\ \A k \in 1..Len(invoked) :
                   invoked[k] = [node |-> lastRouted, q |-> lastQueries[k]])
    /\ [][(size >= 1 /\ Len(routed') = Len(routed) + 1) =>
              counter' = (counter + 1) % size]_vars

\* a batch of two or more queries went to one of several sessions
C8_BatchOnOneSession ==
    size >= 2 /\ Len(routed) >= 2 /\ Len(lastQueries) >= 2 /\ Len(invoked) >= 2

\* C9: once the client is constructed, the cursor is an index of the session
\* array.
C9_CursorIsValidIndex ==
    phase = "ready" => counter \in 0..(size - 1)

\* C10: a submit call that selects a session returns one pending result per
\* input query, the k-th being the result of the k-th query.
C10_OneResultPerQuery ==
    (Len(routed) >= 1 /\ lastRouted \in 0..(size - 1)) =>
        /\ Len(returned) = Len(lastQueries)
        /\ \A k \in 1..Len(returned) :
               returned[k] = [call |-> Len(routed), k |-> k, q |-> lastQueries[k]]

\* a batch with an empty line was submitted after the cursor wrapped
C10_BatchAfterWrap ==
    /\ size = 2
    /\ Len(routed) = 2
    /\ lastRouted = 0
    /\ Len(returned) = 2
    /\ \E k \in 1..Len(lastQueries) : lastQueries[k] = <<>>

\* a is an initial part of b
isPrefix(a, b) == Len(a) <= Len(b) /\ \A i \in 1..Len(a) : b[i] = a[i]

\* the blocks of a sequence of results
blocksOf(hs) == [i \in 1..Len(hs) |-> resultBlock(hs[i])]

\* C11: a click on submit with an empty input field dispatches nothing and
\* leaves the output panel, the input field and the cursor as they were.
C11_EmptySubmitIsNoOp ==
    [][(inputField = <<>> /\ lastEvent' \in {"submit", "submit_empty"}) =>
           UNCHANGED <<resultField, inputField, counter, routed, invoked,
                       returned, pending>>]_vars

\* an empty input was submitted while the panel showed an earlier result
C11_EmptySubmitAfterResult ==
    lastEvent = "submit_empty" /\ Len(routed) >= 1 /\ Len(resultField) >= 1

\* C12 (as stated): no step of the flow replaces or removes what the output
\* panel holds.
C12_PanelOnlyGrows ==
    [][isPrefix(resultField, resultField')]_vars

\* C12 (amended): every resolved result is appended to the panel and only a
\* new submission, which clears the panel, removes entries: the panel holds
\* every result that resolved since the last submission.
C12_PanelGrowsBetweenSubmits ==
    /\ [](\A i \in 1..Len(resolutions) :
             \E j \in 1..Len(resultField) : resultField[j] = resultBlock(resolutions[i]))
    /\ [][/\ lastEvent' # "submit" => isPrefix(resultField, resultField')
          /\ lastEvent' = "submit" => resultField' = <<>>
          /\ lastEvent' = "result" =>
                 \A h \in pending \ pending' :
                     resultField' = Append(resultField, resultBlock(h))]_vars

\* after the second submission the panel holds results of both submissions
C12_ResultsOfTwoSubmits ==
    /\ Len(routed) = 2
    /\ \E i, j \in 1..Len(resultField) : resultField[i].call # resultField[j].call

\* C13: when the click on submit has been handled the input field is empty,
\* every result of the submission is still pending and none is in the panel.
C13_InputClearedBeforeResults ==
    lastEvent = "submit" =>
        /\ inputField = <<>>
        /\ \A k \in 1..Len(returned) : [call |-> Len(routed), k |-> k] \in pending
        /\ \A i \in 1..Len(resultField) : resultField[i].call # Len(routed)

\* a batch of two queries has just been submitted
C13_BatchJustSubmitted ==
    lastEvent = "submit" /\ Len(returned) = 2 /\ Cardinality(pending) = 2

\* C14: a failed connect is caught at the top level and rendered as the
\* global error panel.
C14_ConnectFailureCaught ==
    phase = "failed" =>
        /\ "preparePage" \notin unhandled
        /\ statusField = <<genGlobalError>>

\* C15: whenever no status() call is unsettled the in-flight flag is clear,
\* however the last call settled, and a tick is skipped only while a call is
\* unsettled.
C15_SettledPollClearsFlag ==
    /\ unsettled = 0 => ~updating
    /\ lastEvent = "tick_skipped" => unsettled >= 1

\* after a poll whose rendering threw, the next tick started a new poll
C15_PollAfterRenderThrew ==
    /\ lastEvent = "tick_polled"
    /\ statusCalls = 2
    /\ unsettled = 1
    /\ lastStatus.kind = "resolved"
    /\ \E n \in 1..Len(lastStatus.entries) : lastStatus.entries[n] = "bad"

\* C16: once the page is ready at most one repeating timer is armed, and one
\* is armed exactly when the number of toggle clicks so far is even.
C16_TimerArmedIffEvenToggles ==
    phase = "ready" =>
        /\ Cardinality(armed) <= 1
        /\ armed # {} <=> toggles % 2 = 0

\* polling was stopped, resumed and stopped again
C16_ThreeToggles ==
    phase = "ready" /\ toggles = 3 /\ armed = {}

\* C17: until connect has resolved no timer is armed, no status() call is made
\* and nothing is dispatched, whatever the user clicks.
C17_NothingBeforeConnect ==
    phase # "ready" =>
        /\ armed = {}
        /\ timersMade = 0
        /\ toggles = 0
        /\ statusCalls = 0
        /\ unsettled = 0
        /\ routed = <<>>
        /\ invoked = <<>>
        /\ pending = {}

\* connect failed and a click on submit, with a query typed, did nothing
C17_ClickAfterFailedConnect ==
    phase = "failed" /\ lastEvent = "click_ignored" /\ inputField # <<>>

\* C18: the panel's blocks of the last batch are in the order in which the
\* batch's results resolved.
C18_AppendedInResolutionOrder ==
    SelectSeq(resultField, LAMBDA b : b.call = Len(routed))
        = blocksOf(SelectSeq(resolutions, LAMBDA h : h.call = Len(routed)))

\* the second result of a batch resolved, and was appended, before the first
C18_ResolvedInReverse ==
    /\ Len(resultField) = 2
    /\ resultField[1] = resultBlock([call |-> Len(routed), k |-> 2])
    /\ resultField[2] = resultBlock([call |-> Len(routed), k |-> 1])

\* C19: with S >= 1 sessions, consecutive submit calls select consecutive
\* sessions cyclically, so any S consecutive calls select every session once;
\* a failed invocation leaves the cursor alone and starts no other invocation.
C19_RoundRobinFairness ==
    /\ [](size >= 1 =>
            /\ \A j \in 1..(Len(routed) - 1) : routed[j + 1] = (routed[j] + 1) % size
            /\ \A i \in 1..(Len(routed) - size + 1) :
                   {routed[j] : j \in i..(i + size - 1)} = 0..(size - 1))
    /\ [][lastEvent' = "result_failed" =>
              /\ UNCHANGED <<counter, routed, invoked, returned>>
              /\ pending' \subseteq pending]_vars

\* three sessions served three calls, one of two queries, after a failure
C19_FullCycleAfterFailure ==
    /\ size = 3
    /\ Len(routed) = 3
    /\ Len(lastQueries) = 2
    /\ "submitQuery" \in unhandled

====
